---------------------------- MODULE Spec2Model ----------------------------
(***************************************************************************)
(* Model of the building-code question-answering service:                  *)
(*   - the two incremental ingestion scripts (main.py for the general      *)
(*     corpus, populate_rules_db.py for the rules corpus);                 *)
(*   - the /ask request handler of api.py with its router, retrieval,      *)
(*     deduplication, synthesis and translation stages.                    *)
(* Text is modelled as a sequence of one-character strings, so that the    *)
(* string conversions of the code (splitlines, lower, re.sub, strip, the   *)
(* substring test) are computed rather than assumed.  The extension of a   *)
(* file name is kept as one token (".pdf", ".PDF").                        *)
(***************************************************************************)
EXTENDS Integers, Sequences, FiniteSets, TLC

VARIABLES
    corpus,       \* which ingestion script this behaviour runs
    dir,          \* watched directory: file name -> what loading it gives
    log,          \* contents of the processed-file log (text)
    store,        \* the corpus's vector store: sequence of chunk records
    pc,           \* per ingestion process: position in the script
    todo,         \* per process: files of new_files_to_process not yet iterated
    order,        \* per process: iteration order of new_files_to_process so far
    allChunks,    \* per process: all_chunks / all_new_chunks
    batchNo,      \* per process: index of the next sub-batch to write
    cur,          \* per process: record of the run in progress (history)
    hist,         \* summaries of the finished runs, oldest first (history)
    started,      \* api.py: the startup event has run
    translate_client, \* api.py global: "client" or "None"
    vector_store_global, \* api.py global: the path of the store opened at startup, or "None"
    clientFailed, \* translate.Client() raised at startup (history)
    rpc,          \* per /ask request: the stage it waits for
    topic,        \* per request: the classifier's reply
    context,      \* per request: the context given to the synthesizer
    english,      \* per request: full_english_answer
    raised,       \* per request: the stage that raised, or "none" (history)
    resp,         \* per request: the responses sent
    trace,        \* per request: the stages run, in order (history)
    reply,        \* router under test: the classifier's reply
    route,        \* router under test: the branch taken
    docsIn,       \* deduplicate_docs under test: its argument
    docsOut,      \* deduplicate_docs under test: its result
    pdfText,      \* clean_pdf_text under test: its argument
    cleanedText,  \* clean_pdf_text under test: its result
    fpc           \* "input" before the function under test is applied, "output" after

ingestVars == <<corpus, dir, log, store, pc, todo, order, allChunks, batchNo, cur, hist>>

apiVars == <<started, translate_client, vector_store_global, clientFailed, rpc, topic, context, english, raised, resp, trace>>

fnVars == <<reply, route, docsIn, docsOut, pdfText, cleanedText, fpc>>

vars == <<ingestVars, apiVars, fnVars>>

-----------------------------------------------------------------------------
(* Bounds of the model *)

MaxRuns == 2        \* ingestion runs per behaviour
MaxChunks == 2      \* chunk count of the largest file
MaxReqs == 2        \* /ask requests per behaviour
MaxPieces == 2      \* pieces a classifier reply is made of
MaxDocs == 3        \* passages given to deduplicate_docs
MaxLines == 3       \* lines of a text given to clean_pdf_text

-----------------------------------------------------------------------------
(* Text helpers *)

NL == "\n"

LineBreaks == {NL}

RECURSIVE SplitLinesAcc(_, _, _)
SplitLinesAcc(s, line, acc) ==
    IF s = <<>>
    THEN IF line = <<>> THEN acc ELSE Append(acc, line)
    ELSE IF Head(s) \in LineBreaks
         THEN SplitLinesAcc(Tail(s), <<>>, Append(acc, line))
         ELSE SplitLinesAcc(Tail(s), Append(line, Head(s)), acc)

\* str.splitlines(): the lines of a text, line breaks removed, no empty last line
SplitLines(s) == SplitLinesAcc(s, <<>>, <<>>)

Range(s) == {s[i] : i \in DOMAIN s}

UpperLetters == <<"A", "B", "C", "D", "E", "F", "G", "H", "I", "J", "K", "L", "M",
                  "N", "O", "P", "Q", "R", "S", "T", "U", "V", "W", "X", "Y", "Z", ".PDF">>

LowerLetters == <<"a", "b", "c", "d", "e", "f", "g", "h", "i", "j", "k", "l", "m",
                  "n", "o", "p", "q", "r", "s", "t", "u", "v", "w", "x", "y", "z", ".pdf">>

\* str.lower() on one character
LowerChar(ch) ==
    IF \E i \in DOMAIN UpperLetters : UpperLetters[i] = ch
    THEN LowerLetters[CHOOSE i \in DOMAIN UpperLetters : UpperLetters[i] = ch]
    ELSE ch

Lower(s) == [i \in DOMAIN s |-> LowerChar(s[i])]

-----------------------------------------------------------------------------
(* The ingestion scripts *)

\* main.py 16 and populate_rules_db.py 12: the directory of each script's store
ChromaPath(c) == IF c = "general" THEN "./chroma_db" ELSE "./chroma_db_rules"

Corpora == {"general", "rules"}

Procs == {1, 2}

FileA == <<"a", ".pdf">>
FileB == <<"b", ".pdf">>
FileAB == <<"a", NL, "b", ".pdf">>     \* one name that holds a line break
FileC == <<"c", ".PDF">>

FileNames == {FileA, FileB, FileAB, FileC}

\* what loader.load() and split_documents give for a file: an exception, or
\* its chunks (none for a file without text)
Contents == [raises : {TRUE}, chunks : {0}]
            \cup [raises : {FALSE}, chunks : {0, MaxChunks}]

EndsWithPdf(f) == Len(f) > 0 /\ f[Len(f)] = ".pdf"

\* main.py: f.endswith('.pdf'); populate_rules_db.py: f.lower().endswith('.pdf')
Eligible(c, f) ==
    IF c = "general" THEN EndsWithPdf(f) ELSE EndsWithPdf(Lower(f))

\* processed_files = set(f.read().splitlines())
ProcessedFiles(logText) == Range(SplitLines(logText))

\* mutant: the log is not consulted
NewFilesIgnoringLog(c, d, logText) == {f \in DOMAIN d : Eligible(c, f)}

\* new_files_to_process = current_files - processed_files
NewFiles(c, d, logText) ==
    {f \in DOMAIN d : Eligible(c, f)} \ ProcessedFiles(logText)

\* the chunks split_documents gives for one file, each with its source
ChunksOf(f, n) == [i \in 1..n |-> [source |-> f, pos |-> i]]

BatchSize == 100

Min(a, b) == IF a < b THEN a ELSE b

\* mutant: the chunks after the last full sub-batch are not written
SubBatchesDroppingRest(all) ==
    [k \in 1..(Len(all) \div BatchSize) |->
        SubSeq(all, (k - 1) * BatchSize + 1, k * BatchSize)]

\* populate_rules_db.py: all_new_chunks[i:i + batch_size] for i in range(0, len, batch_size)
SubBatches(all) ==
    [k \in 1..((Len(all) + BatchSize - 1) \div BatchSize) |->
        SubSeq(all, (k - 1) * BatchSize + 1, Min(k * BatchSize, Len(all)))]

\* the add_documents calls of a run: one in main.py, one per sub-batch in the rules script
Batches(c, all) == IF c = "general" THEN <<all>> ELSE SubBatches(all)

\* mutant: the names are written one after the other, with no line break
RECURSIVE LogLinesUnterminated(_)
LogLinesUnterminated(names) ==
    IF names = <<>> THEN <<>>
    ELSE Head(names) \o LogLinesUnterminated(Tail(names))

RECURSIVE LogLines(_)
\* for file_name in new_files_to_process: f.write(f"{file_name}\n")
LogLines(names) ==
    IF names = <<>> THEN <<>>
    ELSE Head(names) \o <<NL>> \o LogLines(Tail(names))

Idle == \A p \in Procs : pc[p] = "idle"

NoRun == [outcome |-> "none"]

\* the state before any run, with directory d
InitIngestIn(d) ==
    /\ corpus \in Corpora
    /\ dir = d
    /\ log = <<>>
    /\ store = <<>>
    /\ pc = [p \in Procs |-> "idle"]
    /\ todo = [p \in Procs |-> {}]
    /\ order = [p \in Procs |-> <<>>]
    /\ allChunks = [p \in Procs |-> <<>>]
    /\ batchNo = [p \in Procs |-> 0]
    /\ cur = [p \in Procs |-> NoRun]
    /\ hist = <<>>

InitIngest == InitIngestIn([f \in {} |-> 0])

\* the script's process ends: its locals are gone, the run's summary is kept
EndRun(p, rec, outcome, logEnd) ==
    /\ pc' = [pc EXCEPT ![p] = "idle"]
    /\ todo' = [todo EXCEPT ![p] = {}]
    /\ order' = [order EXCEPT ![p] = <<>>]
    /\ allChunks' = [allChunks EXCEPT ![p] = <<>>]
    /\ batchNo' = [batchNo EXCEPT ![p] = 0]
    /\ cur' = [cur EXCEPT ![p] = NoRun]
    /\ hist' = Append(hist,
          rec @@ [outcome |-> outcome, logEnd |-> logEnd, storeEnd |-> store',
                  logged |-> IF outcome = "done" THEN order[p] ELSE <<>>])

\* the environment drops a new file into the watched directory between runs
PutFile(f, c) ==
    /\ Idle
    /\ f \notin DOMAIN dir
    /\ dir' = [g \in DOMAIN dir \cup {f} |-> IF g = f THEN c ELSE dir[g]]
    /\ UNCHANGED <<corpus, log, store, pc, todo, order, allChunks, batchNo, cur, hist>>
    /\ UNCHANGED <<apiVars, fnVars>>

\* main.py 52-69, populate_rules_db.py 16-33: read the log, list the directory,
\* select the new files; with none, the run is over
StartRun(p) ==
    /\ pc[p] = "idle"
    /\ Len(hist) + Cardinality({q \in Procs : pc[q] # "idle"}) < MaxRuns
    /\ store' = store
    /\ LET new == NewFiles(corpus, dir, log)
           rec == [dirStart |-> dir, logStart |-> log, storeStart |-> store,
                   new |-> new, failed |-> {}, embeds |-> 0, writes |-> 0,
                   batches |-> <<>>]
       IN  IF new = {}
           THEN EndRun(p, rec, "uptodate", log)
           ELSE /\ pc' = [pc EXCEPT ![p] = "loop"]
                /\ todo' = [todo EXCEPT ![p] = new]
                /\ cur' = [cur EXCEPT ![p] = rec]
                /\ UNCHANGED <<order, allChunks, batchNo, hist>>
    /\ UNCHANGED <<corpus, dir, log>>
    /\ UNCHANGED <<apiVars, fnVars>>

\* mutant: a file that raises discards the chunks collected so far
ExtendChunksLosingBatch(all, f, c) ==
    IF c.raises THEN <<>> ELSE all \o ChunksOf(f, c.chunks)

\* what the per-file try block leaves in all_chunks: unchanged when the file raised
ExtendChunks(all, f, c) ==
    IF c.raises THEN all ELSE all \o ChunksOf(f, c.chunks)

\* embedding calls of the per-file step: the SemanticChunker of the rules script
\* embeds the sentences of the documents it splits
ChunkerEmbeds(c, content) ==
    IF c = "rules" /\ ~content.raises THEN 1 ELSE 0

\* main.py 72-91, populate_rules_db.py 35-45: one iteration of the per-file loop
\* (the iteration order of a set is arbitrary); after the last file, the test of
\* all_chunks, which ends the run when no file gave a chunk
ProcessFile(p, f) ==
    /\ pc[p] = "loop"
    /\ f \in todo[p]
    /\ store' = store
    /\ LET all == ExtendChunks(allChunks[p], f, dir[f])
           rec == [cur[p] EXCEPT
                     !.failed = IF dir[f].raises THEN @ \cup {f} ELSE @,
                     !.embeds = @ + ChunkerEmbeds(corpus, dir[f])]
       IN  IF todo[p] = {f} /\ all = <<>>
           THEN EndRun(p, rec, "nochunks", log)
           ELSE /\ pc' = [pc EXCEPT ![p] = IF todo[p] = {f} THEN "write" ELSE "loop"]
                /\ allChunks' = [allChunks EXCEPT ![p] = all]
                /\ todo' = [todo EXCEPT ![p] = @ \ {f}]
                /\ order' = [order EXCEPT ![p] = Append(@, f)]
                /\ cur' = [cur EXCEPT ![p] = rec]
                /\ batchNo' = [batchNo EXCEPT ![p] = 1]
                /\ UNCHANGED hist
    /\ UNCHANGED <<corpus, dir, log>>
    /\ UNCHANGED <<apiVars, fnVars>>

\* main.py 97, populate_rules_db.py 50-51: one add_documents call that returns
WriteBatch(p) ==
    /\ pc[p] = "write"
    /\ LET bs == Batches(corpus, allChunks[p])
       IN  /\ store' = store \o bs[batchNo[p]]
           /\ pc' = [pc EXCEPT ![p] = IF batchNo[p] = Len(bs) THEN "log" ELSE "write"]
    /\ batchNo' = [batchNo EXCEPT ![p] = @ + 1]
    /\ cur' = [cur EXCEPT ![p].embeds = @ + 1, ![p].writes = @ + 1,
                          ![p].batches = Append(@, Batches(corpus, allChunks[p])[batchNo[p]])]
    /\ UNCHANGED <<corpus, dir, log, todo, order, allChunks, hist>>
    /\ UNCHANGED <<apiVars, fnVars>>

\* mutant: the names are appended to the log although a write raised
LogAfterAbortAppended(logText, names) == logText \o LogLines(names)

\* main.py 97-102, populate_rules_db.py 50-54: the exception of add_documents leaves
\* the function before the log is opened for appending
LogAfterAbort(logText, names) == logText

\* an add_documents call that raises (embedding or store failure): nothing catches
\* it, the script ends
WriteRaises(p) ==
    /\ pc[p] = "write"
    /\ store' = store
    /\ log' = LogAfterAbort(log, order[p])
    /\ EndRun(p, cur[p], "aborted", log')
    /\ UNCHANGED <<corpus, dir>>
    /\ UNCHANGED <<apiVars, fnVars>>

\* main.py 100-102, populate_rules_db.py 53-54: append one line per new file, in
\* the iteration order of the same set
AppendLog(p) ==
    /\ pc[p] = "log"
    /\ log' = log \o LogLines(order[p])
    /\ store' = store
    /\ EndRun(p, cur[p], "done", log')
    /\ UNCHANGED <<corpus, dir>>
    /\ UNCHANGED <<apiVars, fnVars>>

\* runs executed one after another: a run starts only when no other is in progress
SeqStartRun(p) == Idle /\ StartRun(p)

NextIngest ==
    \/ \E f \in FileNames, c \in Contents : PutFile(f, c)
    \/ SeqStartRun(1)
    \/ \E f \in FileNames : ProcessFile(1, f)
    \/ WriteBatch(1)
    \/ WriteRaises(1)
    \/ AppendLog(1)

\* files large enough for the sub-batches of the rules script: exactly one full
\* sub-batch, or one chunk more
BatchContents == [raises : {TRUE}, chunks : {0}]
                 \cup [raises : {FALSE}, chunks : {0, BatchSize, BatchSize + 1}]

\* the watched directories tried: any of two files, each with any of these contents
BatchDirs == UNION {[S -> BatchContents] : S \in SUBSET {FileA, FileB}}

\* runs one after another over a directory that does not change
NextBatch ==
    \/ SeqStartRun(1)
    \/ \E f \in FileNames : ProcessFile(1, f)
    \/ WriteBatch(1)
    \/ WriteRaises(1)
    \/ AppendLog(1)

\* the watched directories of two runs that overlap: any of two files
OverlapDirs == UNION {[S -> Contents] : S \in SUBSET {FileA, FileB}}

\* two processes run the same script over the same directory, log and store; nothing
\* in the scripts makes one wait for the other
NextOverlap ==
    \E p \in Procs :
        \/ StartRun(p)
        \/ \E f \in FileNames : ProcessFile(p, f)
        \/ WriteBatch(p)
        \/ WriteRaises(p)
        \/ AppendLog(p)

-----------------------------------------------------------------------------
(* api.py: router and deduplication *)

WebSearch == <<"w", "e", "b", "_", "s", "e", "a", "r", "c", "h">>

KnowledgeBase == <<"k", "n", "o", "w", "l", "e", "d", "g", "e", "_", "b", "a", "s", "e">>

\* Python's  sub in s
Contains(s, sub) ==
    \E i \in 1..(Len(s) - Len(sub) + 1) : SubSeq(s, i, i + Len(sub) - 1) = sub

\* mutant: the reply is searched as it is, without lower()
RouterKeyCaseSensitive(t) == t

\* the text the branch condition searches: x["topic"].lower()
RouterKey(t) == Lower(t)

\* RunnableBranch: (lambda x: "web_search" in x["topic"].lower(), web_search_chain), rag_chain
Route(t) ==
    IF Contains(RouterKey(t), WebSearch) THEN "web_search" ELSE "knowledge_base"

Whitespace == {" ", "\t", NL}

RECURSIVE LStrip(_)
LStrip(s) ==
    IF s # <<>> /\ Head(s) \in Whitespace THEN LStrip(Tail(s)) ELSE s

RECURSIVE RStrip(_)
RStrip(s) ==
    IF s # <<>> /\ s[Len(s)] \in Whitespace THEN RStrip(SubSeq(s, 1, Len(s) - 1)) ELSE s

\* str.strip()
Strip(s) == RStrip(LStrip(s))

RECURSIVE CollapseWs(_)
\* re.sub(r'\s+', ' ', s): every maximal run of whitespace becomes one space
CollapseWs(s) ==
    IF s = <<>> THEN <<>>
    ELSE IF Head(s) \in Whitespace
         THEN <<" ">> \o CollapseWs(LStrip(Tail(s)))
         ELSE <<Head(s)>> \o CollapseWs(Tail(s))

\* mutant: passages are compared as retrieved, not normalized
DocKeyRaw(doc) == doc.page_content

\* normalized_content = re.sub(r'\s+', ' ', doc.page_content).strip()
DocKey(doc) == Strip(CollapseWs(doc.page_content))

RECURSIVE DedupLoop(_, _, _)
DedupLoop(docs, seen_contents, unique_docs) ==
    IF docs = <<>> THEN unique_docs
    ELSE IF DocKey(Head(docs)) \notin seen_contents
         THEN DedupLoop(Tail(docs), seen_contents \cup {DocKey(Head(docs))},
                        Append(unique_docs, Head(docs)))
         ELSE DedupLoop(Tail(docs), seen_contents, unique_docs)

DeduplicateDocs(docs) == DedupLoop(docs, {}, <<>>)

RECURSIVE FormatDocs(_)
\* "\n\n".join(doc.page_content for doc in docs)
FormatDocs(docs) ==
    IF docs = <<>> THEN <<>>
    ELSE IF Len(docs) = 1 THEN docs[1].page_content
         ELSE docs[1].page_content \o <<NL, NL>> \o FormatDocs(Tail(docs))

\* a list of Documents: the texts, each with the metadata that tells it apart
Docs(texts) == [i \in DOMAIN texts |-> [page_content |-> texts[i], meta |-> i]]

-----------------------------------------------------------------------------
(* api.py: startup and the /ask handler *)

Reqs == 1..MaxReqs

\* api.py 41: the store directory the API opens
CHROMA_DB_PATH == "./chroma_db"

Placeholder == "[Translator not available]"

AskReplies == {WebSearch, KnowledgeBase, <<"W", "e", "b", "_", "S", "e", "a", "r", "c", "h", ".">>}

Retrievals == {Docs(<<>>), Docs(<< <<"A", " ", "s">>, <<"A", " ", " ", "s">>, <<"B">> >>)}

SearchResults == {<<"r">>}

Answers == {"answer"}

Translations == {"telugu"}

NoResponse == <<>>

InitApi ==
    /\ started = FALSE
    /\ translate_client = "None"
    /\ vector_store_global = "None"
    /\ clientFailed = FALSE
    /\ rpc = [r \in Reqs |-> "idle"]
    /\ topic = [r \in Reqs |-> <<>>]
    /\ context = [r \in Reqs |-> <<>>]
    /\ english = [r \in Reqs |-> ""]
    /\ raised = [r \in Reqs |-> "none"]
    /\ resp = [r \in Reqs |-> NoResponse]
    /\ trace = [r \in Reqs |-> <<>>]

\* what startup_event leaves in translate_client
ClientAfterStartup(created) == IF created THEN "client" ELSE "None"

\* api.py 66-79: the startup event; translate.Client() returns or raises
Startup(created) ==
    /\ ~started
    /\ started' = TRUE
    /\ vector_store_global' = CHROMA_DB_PATH
    /\ translate_client' = ClientAfterStartup(created)
    /\ clientFailed' = ~created
    /\ UNCHANGED <<rpc, topic, context, english, raised, resp, trace>>
    /\ UNCHANGED <<ingestVars, fnVars>>

\* api.py 169: the success response
SuccessResponse(en, te) == [status |-> 200, english |-> en, telugu |-> te]

\* mutant: the error response also returns the answer obtained so far
ErrorResponseWithPartial(r, stage) ==
    [status |-> 500, detail |-> stage, english |-> english[r]]

\* api.py 171-173: the response of the except branch
ErrorResponse(r, stage) == [status |-> 500, detail |-> stage]

\* mutant: the translation is attempted whether or not a client exists
UseTranslatorUnchecked == TRUE

\* api.py 158: if translate_client
UseTranslator == translate_client = "client"

\* mutant: translate_client.translate is called in the handler itself, which keeps
\* the event loop until it returns
HoldsEventLoopInTranslate(stage) == stage = "translate"

\* api.py 153, 160-164: every stage is awaited (chain.ainvoke, run_in_executor), so a
\* request waiting for a stage does not keep the event loop
HoldsEventLoop(stage) == FALSE

\* the event loop can run the next step of request r: no other request keeps it
LoopFreeFor(r) == \A q \in Reqs \ {r} : ~HoldsEventLoop(rpc[q])

\* api.py 148-151: a request arrives and get_full_chain builds the chain
Ask(r) ==
    /\ started
    /\ LoopFreeFor(r)
    /\ rpc[r] = "idle"
    /\ rpc' = [rpc EXCEPT ![r] = "router"]
    /\ UNCHANGED <<started, translate_client, vector_store_global, clientFailed, topic, context, english, raised, resp, trace>>
    /\ UNCHANGED <<ingestVars, fnVars>>

\* mutant: the branches of the RunnableBranch are exchanged
BranchStageSwapped(t) == IF Route(t) = "web_search" THEN "retrieve" ELSE "search"

\* api.py 140-143: the chain the RunnableBranch runs: web_search_chain when the
\* condition holds, else the default rag_chain
BranchStage(t) == IF Route(t) = "web_search" THEN "search" ELSE "retrieve"

\* api.py 139-144: the router chain returns the classifier's reply and the branch is chosen
Classify(r, t) ==
    /\ rpc[r] = "router"
    /\ LoopFreeFor(r)
    /\ topic' = [topic EXCEPT ![r] = t]
    /\ rpc' = [rpc EXCEPT ![r] = BranchStage(t)]
    /\ trace' = [trace EXCEPT ![r] = Append(@, "classify")]
    /\ UNCHANGED <<started, translate_client, vector_store_global, clientFailed, context, english, raised, resp>>
    /\ UNCHANGED <<ingestVars, fnVars>>

\* api.py 101-105: retriever | deduplicate_docs | format_docs
Retrieve(r, docs) ==
    /\ rpc[r] = "retrieve"
    /\ LoopFreeFor(r)
    /\ context' = [context EXCEPT ![r] = FormatDocs(DeduplicateDocs(docs))]
    /\ rpc' = [rpc EXCEPT ![r] = "synth"]
    /\ trace' = [trace EXCEPT ![r] = Append(@, "retrieve")]
    /\ UNCHANGED <<started, translate_client, vector_store_global, clientFailed, topic, english, raised, resp>>
    /\ UNCHANGED <<ingestVars, fnVars>>

\* api.py 120-124: the web search tool
Search(r, results) ==
    /\ rpc[r] = "search"
    /\ LoopFreeFor(r)
    /\ context' = [context EXCEPT ![r] = results]
    /\ rpc' = [rpc EXCEPT ![r] = "synth"]
    /\ trace' = [trace EXCEPT ![r] = Append(@, "search")]
    /\ UNCHANGED <<started, translate_client, vector_store_global, clientFailed, topic, english, raised, resp>>
    /\ UNCHANGED <<ingestVars, fnVars>>

\* api.py 106/125-127 and 153-169: the synthesizer returns the English answer; with
\* no translation client the handler returns at once, with one the translation is
\* handed to the executor
Synthesize(r, answer) ==
    /\ rpc[r] = "synth"
    /\ LoopFreeFor(r)
    /\ english' = [english EXCEPT ![r] = answer]
    /\ trace' = [trace EXCEPT ![r] = Append(@, "synthesize")]
    /\ IF UseTranslator
       THEN /\ rpc' = [rpc EXCEPT ![r] = "translate"]
            /\ UNCHANGED resp
       ELSE /\ rpc' = [rpc EXCEPT ![r] = "done"]
            /\ resp' = [resp EXCEPT ![r] = Append(@, SuccessResponse(answer, Placeholder))]
    /\ UNCHANGED <<started, translate_client, vector_store_global, clientFailed, topic, context, raised>>
    /\ UNCHANGED <<ingestVars, fnVars>>

\* api.py 161-169: translate_client.translate returns
Translate(r, text) ==
    /\ rpc[r] = "translate"
    /\ rpc' = [rpc EXCEPT ![r] = "done"]
    /\ trace' = [trace EXCEPT ![r] = Append(@, "translate")]
    /\ resp' = [resp EXCEPT ![r] = Append(@, SuccessResponse(english[r], text))]
    /\ UNCHANGED <<started, translate_client, vector_store_global, clientFailed, topic, context, english, raised>>
    /\ UNCHANGED <<ingestVars, fnVars>>

Stages == {"router", "retrieve", "search", "synth", "translate"}

\* api.py 171-173: the stage the request waits for raises; the except branch answers
StageRaises(r) ==
    /\ rpc[r] \in Stages
    /\ rpc[r] = "translate" \/ LoopFreeFor(r)
    /\ raised' = [raised EXCEPT ![r] = rpc[r]]
    /\ rpc' = [rpc EXCEPT ![r] = "done"]
    /\ resp' = [resp EXCEPT ![r] = Append(@, ErrorResponse(r, rpc[r]))]
    /\ UNCHANGED <<started, translate_client, vector_store_global, clientFailed, topic, context, english, trace>>
    /\ UNCHANGED <<ingestVars, fnVars>>

NextApi ==
    \/ \E created \in BOOLEAN : Startup(created)
    \/ \E r \in Reqs : Ask(r)
    \/ \E r \in Reqs, t \in AskReplies : Classify(r, t)
    \/ \E r \in Reqs, docs \in Retrievals : Retrieve(r, docs)
    \/ \E r \in Reqs, results \in SearchResults : Search(r, results)
    \/ \E r \in Reqs, answer \in Answers : Synthesize(r, answer)
    \/ \E r \in Reqs, text \in Translations : Translate(r, text)
    \/ \E r \in Reqs : StageRaises(r)

-----------------------------------------------------------------------------
(* api.py: the retriever over the store directory opened at startup *)

RetrieverK == 7

\* the entries of the store directory at a path: those the script of this behaviour
\* has written when it is that script's directory, none otherwise
StoreAt(path) == IF path = ChromaPath(corpus) THEN store ELSE <<>>

RECURSIVE Decimal(_)
Decimal(n) ==
    LET d == <<"0", "1", "2", "3", "4", "5", "6", "7", "8", "9">>
    IN  IF n < 10 THEN <<d[n + 1]>> ELSE Decimal(n \div 10) \o <<d[(n % 10) + 1]>>

\* the Document the retriever returns for a stored chunk
StoredDoc(ch, i) ==
    [page_content |-> ch.source \o <<"#">> \o Decimal(ch.pos), meta |-> i]

\* api.py 88: search_kwargs={"k": 7}: the k most similar entries, or all of them when
\* there are fewer, in the order of their similarity to the question
TopK(entries) ==
    LET n == Len(entries)
        k == Min(RetrieverK, n)
    IN  {p \in [1..k -> 1..n] : \A i, j \in 1..k : i # j => p[i] # p[j]}

\* mutant: a query appends the entries it returned to the collection
StoreAfterQueryWriting(entries, picks) ==
    entries \o [i \in DOMAIN picks |-> entries[picks[i]]]

\* api.py 88, 102: a similarity search leaves the collection as it is
StoreAfterQuery(entries, picks) == entries

\* api.py 101-105 with the retriever of line 88: the passages come from the store
\* directory vector_store_global was opened on
RetrieveStored(r) ==
    /\ rpc[r] = "retrieve"
    /\ LoopFreeFor(r)
    /\ \E picks \in TopK(StoreAt(vector_store_global)) :
          LET entries == StoreAt(vector_store_global)
              docs == [i \in DOMAIN picks |-> StoredDoc(entries[picks[i]], i)]
          IN  /\ context' = [context EXCEPT ![r] = FormatDocs(DeduplicateDocs(docs))]
              /\ store' = IF vector_store_global = ChromaPath(corpus)
                          THEN StoreAfterQuery(store, picks) ELSE store
    /\ rpc' = [rpc EXCEPT ![r] = "synth"]
    /\ trace' = [trace EXCEPT ![r] = Append(@, "retrieve")]
    /\ UNCHANGED <<started, translate_client, vector_store_global, clientFailed, topic, english, raised, resp>>
    /\ UNCHANGED <<corpus, dir, log, pc, todo, order, allChunks, batchNo, cur, hist>>
    /\ UNCHANGED fnVars

\* a watched directory with one file, which gives one chunk
ServiceDir == [f \in {FileA} |-> [raises |-> FALSE, chunks |-> 1]]

\* the API process next to the ingestion script of one corpus
NextService ==
    \/ SeqStartRun(1)
    \/ \E f \in FileNames : ProcessFile(1, f)
    \/ WriteBatch(1)
    \/ WriteRaises(1)
    \/ AppendLog(1)
    \/ \E created \in BOOLEAN : Startup(created)
    \/ \E r \in Reqs : Ask(r)
    \/ \E r \in Reqs, t \in AskReplies : Classify(r, t)
    \/ \E r \in Reqs : RetrieveStored(r)
    \/ \E r \in Reqs, results \in SearchResults : Search(r, results)
    \/ \E r \in Reqs, answer \in Answers : Synthesize(r, answer)
    \/ \E r \in Reqs, text \in Translations : Translate(r, text)
    \/ \E r \in Reqs : StageRaises(r)

-----------------------------------------------------------------------------
(* main.py: clean_pdf_text *)

Digits == {"0", "1", "2", "3", "4", "5", "6", "7", "8", "9"}

RECURSIVE SplitNewlineAcc(_, _, _)
SplitNewlineAcc(s, line, acc) ==
    IF s = <<>>
    THEN Append(acc, line)
    ELSE IF Head(s) = NL
         THEN SplitNewlineAcc(Tail(s), <<>>, Append(acc, line))
         ELSE SplitNewlineAcc(Tail(s), Append(line, Head(s)), acc)

\* main.py 31: text.split('\n'); the piece after the last line break is a line too
SplitNewline(s) == SplitNewlineAcc(s, <<>>, <<>>)

\* regex \s* from position i: the first position at or after i that holds no whitespace
RECURSIVE SkipWs(_, _)
SkipWs(s, i) ==
    IF i <= Len(s) /\ s[i] \in Whitespace THEN SkipWs(s, i + 1) ELSE i

\* regex \d* from position i
RECURSIVE SkipDigits(_, _)
SkipDigits(s, i) ==
    IF i <= Len(s) /\ s[i] \in Digits THEN SkipDigits(s, i + 1) ELSE i

\* a literal of a pattern at position i, under re.IGNORECASE (lit is in lower case)
MatchesLit(s, i, lit) ==
    /\ i + Len(lit) - 1 <= Len(s)
    /\ Lower(SubSeq(s, i, i + Len(lit) - 1)) = lit

\* main.py 33:  ^\s*Page\s*\d+\s*(of\s*\d+)?\s*$
MatchesPageLine(s) ==
    LET a == SkipWs(s, 1)
        b == SkipWs(s, a + 4)
        c == SkipDigits(s, b)
        d == SkipWs(s, c)
        e == SkipWs(s, d + 2)
        f == SkipDigits(s, e)
    IN  /\ MatchesLit(s, a, <<"p", "a", "g", "e">>)
        /\ c > b
        /\ \/ d = Len(s) + 1
           \/ /\ MatchesLit(s, d, <<"o", "f">>)
              /\ f > e
              /\ SkipWs(s, f) = Len(s) + 1

\* main.py 34:  ^\s*Confidential\s*$
MatchesConfidential(s) ==
    LET a == SkipWs(s, 1)
    IN  /\ MatchesLit(s, a, <<"c", "o", "n", "f", "i", "d", "e", "n", "t", "i", "a", "l">>)
        /\ SkipWs(s, a + 12) = Len(s) + 1

\* main.py 35:  (?i)government\s+of\s+telangana , found anywhere in the line
MatchesGovernment(s) ==
    \E i \in 1..Len(s) :
        LET b == SkipWs(s, i + 10)
            c == SkipWs(s, b + 2)
        IN  /\ MatchesLit(s, i, <<"g", "o", "v", "e", "r", "n", "m", "e", "n", "t">>)
            /\ b > i + 10
            /\ MatchesLit(s, b, <<"o", "f">>)
            /\ c > b + 2
            /\ MatchesLit(s, c, <<"t", "e", "l", "a", "n", "g", "a", "n", "a">>)

\* main.py 43: any(re.search(pattern, stripped_line, re.IGNORECASE) ...)
MatchesHeaderFooter(s) ==
    MatchesPageLine(s) \/ MatchesConfidential(s) \/ MatchesGovernment(s)

\* mutant: the line is appended as it was read
KeptTextRaw(line) == line

\* main.py 39, 46: what is appended for a line that is kept
KeptText(line) == Strip(line)

\* main.py 38-46: the loop over the lines
RECURSIVE CleanLoop(_, _)
CleanLoop(lines, cleaned_lines) ==
    IF lines = <<>>
    THEN cleaned_lines
    ELSE LET stripped_line == Strip(Head(lines))
         IN  IF stripped_line = <<>>
             THEN CleanLoop(Tail(lines), cleaned_lines)
             ELSE IF MatchesHeaderFooter(stripped_line)
                  THEN CleanLoop(Tail(lines), cleaned_lines)
                  ELSE CleanLoop(Tail(lines), Append(cleaned_lines, KeptText(Head(lines))))

\* " ".join(lines)
RECURSIVE JoinSpace(_)
JoinSpace(lines) ==
    IF lines = <<>> THEN <<>>
    ELSE IF Len(lines) = 1 THEN Head(lines)
    ELSE Head(lines) \o <<" ">> \o JoinSpace(Tail(lines))

\* main.py 27-48
clean_pdf_text(text) == JoinSpace(CleanLoop(SplitNewline(text), <<>>))

-----------------------------------------------------------------------------
(* The router and deduplicate_docs on their own, over bounded inputs *)

Pieces == {WebSearch, KnowledgeBase,
           <<"W", "E", "B", "_", "S", "E", "A", "R", "C", "H">>,
           <<"w", "e", "b">>, <<"_", "S", "e", "a", "r", "c", "h">>,
           <<"w", "e", "b", " ", "s", "e", "a", "r", "c", "h">>,
           <<"s", "e", "a", "r", "c", "h", "_", "w", "e", "b">>,
           <<" ">>, <<"'">>}

RECURSIVE Concat(_)
Concat(ss) == IF ss = <<>> THEN <<>> ELSE Head(ss) \o Concat(Tail(ss))

\* the classifier replies tried: up to MaxPieces pieces, one after the other
Replies == {Concat(ss) : ss \in UNION {[1..n -> Pieces] : n \in 0..MaxPieces}}

Passages == {<<"A", " ", " ", "s">>, <<"A", " ", "s">>, <<"A", "\t", "s">>,
             <<" ", "A", " ", "s", NL>>, <<"A", "s">>, <<"B", " ", "r">>,
             <<"B", " ", NL, " ", "r">>, <<>>, <<" ", "\t">>}

DocLists == {Docs(texts) : texts \in UNION {[1..n -> Passages] : n \in 0..MaxDocs}}

\* lines a page of a PDF may hold: page numbers, markers, letterheads, near misses,
\* blank lines and ordinary text
PdfLines == {<<"P", "a", "g", "e", " ", "3">>,
             <<"p", "a", "g", "e", "3", "o", "f", "1", "0">>,
             <<" ", "P", "A", "G", "E", "\t", "3", " ", "O", "F", " ", "1", " ">>,
             <<"P", "a", "g", "e", " ", "3", " ", "o", "f">>,
             <<"P", "a", "g", "e">>,
             <<"C", "o", "n", "f", "i", "d", "e", "n", "t", "i", "a", "l">>,
             <<"\t", "c", "o", "n", "f", "i", "d", "e", "n", "t", "i", "a", "l", " ">>,
             <<"C", "o", "n", "f", "i", "d", "e", "n", "t", "i", "a", "l", " ", "x">>,
             <<"x", " ", "G", "o", "v", "e", "r", "n", "m", "e", "n", "t", " ", "\t", "o", "f",
               " ", "T", "e", "l", "a", "n", "g", "a", "n", "a", " ", "y">>,
             <<"g", "o", "v", "e", "r", "n", "m", "e", "n", "t", " ", "o", "f">>,
             <<"g", "o", "v", "e", "r", "n", "m", "e", "n", "t", "o", "f", " ",
               "t", "e", "l", "a", "n", "g", "a", "n", "a">>,
             <<>>,
             <<" ", "\t">>,
             <<" ", "a", " ", " ", "b", " ">>,
             <<"c">>}

RECURSIVE JoinNewline(_)
JoinNewline(lines) ==
    IF Len(lines) = 1 THEN Head(lines)
    ELSE Head(lines) \o <<NL>> \o JoinNewline(Tail(lines))

\* the texts tried: up to MaxLines lines, a line break between two lines
PdfTexts == {JoinNewline(ls) : ls \in UNION {[1..n -> PdfLines] : n \in 1..MaxLines}}

InitFn ==
    /\ reply = <<>>
    /\ route = "none"
    /\ docsIn = <<>>
    /\ docsOut = <<>>
    /\ pdfText = <<>>
    /\ cleanedText = <<>>
    /\ fpc = "input"

ApplyRoute ==
    /\ fpc = "input"
    /\ route' = Route(reply)
    /\ fpc' = "output"
    /\ UNCHANGED <<reply, docsIn, docsOut, pdfText, cleanedText>>
    /\ UNCHANGED <<ingestVars, apiVars>>

ApplyDedup ==
    /\ fpc = "input"
    /\ docsOut' = DeduplicateDocs(docsIn)
    /\ fpc' = "output"
    /\ UNCHANGED <<reply, route, docsIn, pdfText, cleanedText>>
    /\ UNCHANGED <<ingestVars, apiVars>>

ApplyClean ==
    /\ fpc = "input"
    /\ cleanedText' = clean_pdf_text(pdfText)
    /\ fpc' = "output"
    /\ UNCHANGED <<reply, route, docsIn, docsOut, pdfText>>
    /\ UNCHANGED <<ingestVars, apiVars>>

InitIngestOff == corpus = "general" /\ InitIngest

-----------------------------------------------------------------------------
(* Specifications *)

\* the ingestion scripts, run one after another
Init == InitIngest /\ InitApi /\ InitFn

Next == NextIngest

Spec == Init /\ [][Next]_vars

\* the API process
InitAsk == InitIngestOff /\ InitApi /\ InitFn

NextAsk == NextApi

SpecAsk == InitAsk /\ [][NextAsk]_vars

\* the router over the replies
InitRouter ==
    /\ InitIngestOff /\ InitApi
    /\ reply \in Replies
    /\ route = "none" /\ docsIn = <<>> /\ docsOut = <<>> /\ fpc = "input"
    /\ pdfText = <<>> /\ cleanedText = <<>>

NextRouter == ApplyRoute

SpecRouter == InitRouter /\ [][NextRouter]_vars

\* deduplicate_docs over the passage lists
InitDedup ==
    /\ InitIngestOff /\ InitApi
    /\ docsIn \in DocLists
    /\ reply = <<>> /\ route = "none" /\ docsOut = <<>> /\ fpc = "input"
    /\ pdfText = <<>> /\ cleanedText = <<>>

NextDedup == ApplyDedup

SpecDedup == InitDedup /\ [][NextDedup]_vars

\* clean_pdf_text over the texts
InitClean ==
    /\ InitIngestOff /\ InitApi
    /\ pdfText \in PdfTexts
    /\ reply = <<>> /\ route = "none" /\ docsIn = <<>> /\ docsOut = <<>>
    /\ cleanedText = <<>> /\ fpc = "input"

NextClean == ApplyClean

SpecClean == InitClean /\ [][NextClean]_vars

\* the API next to the ingestion runs of one corpus
InitService == InitIngestIn(ServiceDir) /\ InitApi /\ InitFn

SpecService == InitService /\ [][NextService]_vars

\* the ingestion scripts over large files
InitBatch == InitApi /\ InitFn /\ \E d \in BatchDirs : InitIngestIn(d)

SpecBatch == InitBatch /\ [][NextBatch]_vars

\* two overlapping runs of one ingestion script
InitOverlap == InitApi /\ InitFn /\ \E d \in OverlapDirs : InitIngestIn(d)

SpecOverlap == InitOverlap /\ [][NextOverlap]_vars

-----------------------------------------------------------------------------
(* Properties of the ingestion scripts *)

Suffix(full, prefix) == SubSeq(full, Len(prefix) + 1, Len(full))

IsPrefix(a, b) == Len(a) <= Len(b) /\ SubSeq(b, 1, Len(a)) = a

\* the positions of a log text where the record of file f (its name and a line
\* break) was written at the start of a line
Records(f, text) ==
    {i \in 1..Len(text) :
        /\ i = 1 \/ text[i - 1] = NL
        /\ i + Len(f) <= Len(text)
        /\ SubSeq(text, i, i + Len(f)) = f \o <<NL>>}

\* file f is one of the lines of a log text
IsLogLine(f, text) ==
    /\ NL \notin Range(f)
    /\ \E i \in 1..Len(text) :
          /\ i = 1 \/ text[i - 1] = NL
          /\ i + Len(f) - 1 <= Len(text)
          /\ SubSeq(text, i, i + Len(f) - 1) = f
          /\ i + Len(f) > Len(text) \/ text[i + Len(f)] = NL

LogAdded(h) == Suffix(h.logEnd, h.logStart)

StoreAdded(h) == Suffix(h.storeEnd, h.storeStart)

\* C1: a file whose load/clean/chunk step raised in a run is not appended to the
\* log by that run, and the next run (the file still being there) selects it
\* again as a new file.
C1_FailedFileStaysUnknown ==
    \A k \in DOMAIN hist : \A f \in hist[k].failed :
        /\ Records(f, LogAdded(hist[k])) = {}
        /\ (k + 1 \in DOMAIN hist /\ f \in DOMAIN hist[k + 1].dirStart)
              => f \in hist[k + 1].new

\* C2: in a run where a file raised and the store writes succeeded, every other
\* new file has all of its chunks among the entries the run appended to the
\* store, and its record among the lines the run appended to the log.
C2_OtherFilesIngested ==
    \A k \in DOMAIN hist :
        (hist[k].failed # {} /\ hist[k].outcome = "done") =>
            \A f \in hist[k].new \ hist[k].failed :
                /\ \A i \in 1..hist[k].dirStart[f].chunks :
                      [source |-> f, pos |-> i] \in Range(StoreAdded(hist[k]))
                /\ Records(f, LogAdded(hist[k])) # {}

\* a finished run in which one file raised and two others gave their chunks
C2_Witness ==
    \E k \in DOMAIN hist :
        /\ hist[k].failed # {}
        /\ hist[k].outcome = "done"
        /\ Cardinality({f \in hist[k].new \ hist[k].failed :
                            hist[k].dirStart[f].chunks > 0}) >= 2

\* every eligible file of the directory a run started with is a line of the log
\* the run started with
AllLogged(h) ==
    \A f \in DOMAIN h.dirStart : Eligible(corpus, f) => IsLogLine(f, h.logStart)

\* C3: a run started when every eligible file is already in the log makes no
\* embedding call and no store write, and leaves the log and the store as they were.
C3_NoNewFilesNoWork ==
    \A k \in DOMAIN hist :
        AllLogged(hist[k]) =>
            /\ hist[k].embeds = 0
            /\ hist[k].writes = 0
            /\ hist[k].logEnd = hist[k].logStart
            /\ hist[k].storeEnd = hist[k].storeStart

\* a finished run that started with an eligible file in the directory, all of
\* them logged by an earlier run
C3_Witness ==
    \E k \in DOMAIN hist :
        /\ AllLogged(hist[k])
        /\ \E f \in DOMAIN hist[k].dirStart : Eligible(corpus, f)
        /\ hist[k].storeStart # <<>>

\* C4: two runs in a row on an unchanged directory, the first of which was not
\* cut short by a store-write exception: the log after the second run equals the
\* log after the first, and the second run makes no store write.
C4_SecondRunIdempotent ==
    \A k \in DOMAIN hist :
        (/\ k + 1 \in DOMAIN hist
         /\ hist[k + 1].dirStart = hist[k].dirStart
         /\ hist[k].outcome # "aborted")
        => /\ hist[k + 1].logEnd = hist[k].logEnd
           /\ hist[k + 1].writes = 0

\* the appends of file f's record to the log: the run and the place in its lines
Appends(f) ==
    {ki \in (DOMAIN hist) \X (1..Cardinality(FileNames)) :
        ki[2] \in DOMAIN hist[ki[1]].logged /\ hist[ki[1]].logged[ki[2]] = f}

\* C5: over runs executed one after another the log only grows at its end, no
\* file's record is appended more than once, and the record of a file whose
\* chunks a run wrote is appended exactly once.
C5_LogAppendOnlyNoDuplicates ==
    /\ \A k \in DOMAIN hist : IsPrefix(hist[k].logStart, hist[k].logEnd)
    /\ \A f \in FileNames : Cardinality(Appends(f)) <= 1
    /\ \A k \in DOMAIN hist :
          hist[k].outcome = "done" =>
              \A f \in hist[k].new \ hist[k].failed : Cardinality(Appends(f)) = 1

-----------------------------------------------------------------------------
(* Properties of the /ask handler *)

\* the one response of a finished request
Response(r) == resp[r][1]

IsSuccess(x) == DOMAIN x = {"status", "english", "telugu"} /\ x.status = 200

IsError(x) == DOMAIN x = {"status", "detail"} /\ x.status = 500

\* the request's synthesis stage returned the English answer
Synthesized(r) == \E i \in DOMAIN trace[r] : trace[r][i] = "synthesize"

\* the request handed a translation to the translation backend
CalledTranslator(r) ==
    \/ rpc[r] = "translate"
    \/ raised[r] = "translate"
    \/ \E i \in DOMAIN trace[r] : trace[r][i] = "translate"

\* C6: a request whose classification and synthesis completed and whose
\* translation call failed is still answered with the success response that
\* carries the English answer, telugu holding a sentinel.
C6_TranslationFailureKeepsAnswer ==
    \A r \in Reqs :
        (rpc[r] = "done" /\ Synthesized(r) /\ raised[r] = "translate") =>
            /\ Len(resp[r]) = 1
            /\ IsSuccess(Response(r))
            /\ Response(r).english = english[r]

\* C7: when translate.Client() raised at startup the client stays absent, no
\* request calls the translation backend, and every request whose classification
\* and synthesis completed is answered with its English answer and the
\* placeholder as telugu.
C7_NoClientPlaceholder ==
    clientFailed =>
        /\ translate_client = "None"
        /\ \A r \in Reqs :
              /\ ~CalledTranslator(r)
              /\ Synthesized(r) =>
                    /\ rpc[r] = "done"
                    /\ resp[r] = <<[status |-> 200, english |-> english[r],
                                    telugu |-> Placeholder]>>

\* the client could not be created, one request was answered with the
\* placeholder and another is past its synthesis too
C7_Witness ==
    /\ clientFailed
    /\ \A r \in Reqs : Synthesized(r) /\ rpc[r] = "done"

\* C8: a request has at most one response, and has one exactly when it is over;
\* the response is the success response or the error response; when a stage
\* raised it is the error response, without english or telugu.
C8_OneResponseNoPartial ==
    \A r \in Reqs :
        /\ Len(resp[r]) <= 1
        /\ (rpc[r] = "done") <=> (Len(resp[r]) = 1)
        /\ Len(resp[r]) = 1 => (IsSuccess(Response(r)) \/ IsError(Response(r)))
        /\ raised[r] # "none" =>
              /\ Len(resp[r]) = 1
              /\ IsError(Response(r))
              /\ {"english", "telugu"} \cap DOMAIN Response(r) = {}
        /\ (rpc[r] = "done" /\ raised[r] = "none") => IsSuccess(Response(r))

\* one request failed in its translation, after its synthesis, and another
\* one succeeded
C8_Witness ==
    /\ \E r \in Reqs : raised[r] = "translate" /\ Synthesized(r) /\ rpc[r] = "done"
    /\ \E r \in Reqs : raised[r] = "none" /\ rpc[r] = "done"

-----------------------------------------------------------------------------
(* Properties of the router and of deduplicate_docs *)

UpperChar(ch) ==
    IF \E i \in DOMAIN LowerLetters : LowerLetters[i] = ch
    THEN UpperLetters[CHOOSE i \in DOMAIN LowerLetters : LowerLetters[i] = ch]
    ELSE ch

\* the reply holds the letters of "web_search" in a row, each in either case
HoldsWebSearch(t) ==
    \E i \in 1..Len(t) :
        /\ i + Len(WebSearch) - 1 <= Len(t)
        /\ \A k \in 1..Len(WebSearch) :
              t[i + k - 1] \in {WebSearch[k], UpperChar(WebSearch[k])}

\* C9: the routing decision is web_search exactly when the reply contains
\* "web_search" compared without regard to case; any other reply, the empty one
\* included, routes to knowledge_base.
C9_RouteIffWebSearch ==
    fpc = "output" =>
        /\ route \in {"web_search", "knowledge_base"}
        /\ (route = "web_search") <=> HoldsWebSearch(reply)

\* a reply that holds the token in mixed case, between other text, was routed
C9_Witness ==
    /\ fpc = "output"
    /\ route = "web_search"
    /\ ~Contains(reply, WebSearch)
    /\ Len(reply) > Len(WebSearch)

RECURSIVE WordsAcc(_, _, _)
WordsAcc(s, word, acc) ==
    IF s = <<>>
    THEN IF word = <<>> THEN acc ELSE Append(acc, word)
    ELSE IF Head(s) \in Whitespace
         THEN WordsAcc(Tail(s), <<>>, IF word = <<>> THEN acc ELSE Append(acc, word))
         ELSE WordsAcc(Tail(s), Append(word, Head(s)), acc)

RECURSIVE JoinWords(_)
JoinWords(ws) ==
    IF ws = <<>> THEN <<>>
    ELSE IF Len(ws) = 1 THEN ws[1]
         ELSE ws[1] \o <<" ">> \o JoinWords(Tail(ws))

\* the whitespace-normalized text of a passage: its words, one space between them
Normalized(doc) == JoinWords(WordsAcc(doc.page_content, <<>>, <<>>))

\* the places of the input whose normalized text no earlier place has
FirstOccurrences(docs) ==
    {i \in DOMAIN docs : \A j \in 1..(i - 1) : Normalized(docs[j]) # Normalized(docs[i])}

\* C10: the result of deduplicate_docs is a subsequence of its argument, in the
\* argument's order, made of exactly the first occurrence of each normalized
\* text: it is no longer than the argument, no two of its passages have the
\* same normalized text, and every passage of the argument has one with its
\* normalized text in the result.
C10_DedupKeepsFirstOccurrences ==
    fpc = "output" =>
        /\ Len(docsOut) <= Len(docsIn)
        /\ \A k \in DOMAIN docsOut :
              /\ docsOut[k].meta \in DOMAIN docsIn
              /\ docsOut[k] = docsIn[docsOut[k].meta]
        /\ \A k \in DOMAIN docsOut :
              k + 1 \in DOMAIN docsOut => docsOut[k].meta < docsOut[k + 1].meta
        /\ {docsOut[k].meta : k \in DOMAIN docsOut} = FirstOccurrences(docsIn)
        /\ \A k, l \in DOMAIN docsOut :
              k # l => Normalized(docsOut[k]) # Normalized(docsOut[l])
        /\ \A i \in DOMAIN docsIn :
              \E k \in DOMAIN docsOut : Normalized(docsOut[k]) = Normalized(docsIn[i])

\* of the three passages "A  s", "A s", "B r" the second, which differs from the
\* first in whitespace only, was dropped and the other two were kept in order
C10_Witness ==
    /\ fpc = "output"
    /\ docsIn = Docs(<< <<"A", " ", " ", "s">>, <<"A", " ", "s">>, <<"B", " ", "r">> >>)
    /\ docsOut = <<docsIn[1], docsIn[3]>>

-----------------------------------------------------------------------------
(* Properties of clean_pdf_text *)

\* the positions of the line breaks of a text
Breaks(text) == {i \in 1..Len(text) : text[i] = NL}

NumLines(text) == Cardinality(Breaks(text)) + 1

\* the position of the k-th line break; 0 before the first line, past the end
\* after the last
BreakAt(text, k) ==
    IF k = 0 THEN 0
    ELSE IF k = NumLines(text) THEN Len(text) + 1
    ELSE CHOOSE i \in Breaks(text) : Cardinality({j \in Breaks(text) : j <= i}) = k

\* the k-th line of a text: what lies between two consecutive line breaks
LineOf(text, k) == SubSeq(text, BreakAt(text, k - 1) + 1, BreakAt(text, k) - 1)

IsBlank(line) == \A i \in 1..Len(line) : line[i] \in Whitespace

\* a line without the whitespace before its first and after its last other character
Trimmed(line) ==
    LET solid == {i \in 1..Len(line) : line[i] \notin Whitespace}
    IN  IF solid = {} THEN <<>>
        ELSE SubSeq(line, CHOOSE i \in solid : \A j \in solid : i <= j,
                          CHOOSE i \in solid : \A j \in solid : j <= i)

\* where the k-th line starts in the result: after the kept lines before it, each
\* followed by one space
RECURSIVE OffsetOf(_, _, _)
OffsetOf(trimmed, kept, k) ==
    IF k = 1 THEN 0
    ELSE OffsetOf(trimmed, kept, k - 1)
         + (IF k - 1 \in kept THEN Len(trimmed[k - 1]) + 1 ELSE 0)

\* C11: clean_pdf_text drops exactly the lines that are blank or match a header or
\* footer pattern, keeps every other line trimmed and otherwise unaltered, in the
\* original order with one space between two kept lines; the result is empty only
\* when every line is blank or boilerplate
C11_CleanKeepsOtherLines ==
    fpc = "output" =>
        LET n == NumLines(pdfText)
            lines == [k \in 1..n |-> LineOf(pdfText, k)]
            trimmed == [k \in 1..n |-> Trimmed(lines[k])]
            kept == {k \in 1..n : ~IsBlank(lines[k]) /\ ~MatchesHeaderFooter(trimmed[k])}
        IN  /\ Len(cleanedText) = IF kept = {} THEN 0 ELSE OffsetOf(trimmed, kept, n + 1) - 1
            /\ \A k \in kept :
                  LET t == trimmed[k]
                      o == OffsetOf(trimmed, kept, k)
                  IN  /\ o + Len(t) <= Len(cleanedText)
                      /\ SubSeq(cleanedText, o + 1, o + Len(t)) = t
                      /\ o + Len(t) < Len(cleanedText) => cleanedText[o + Len(t) + 1] = " "
            /\ cleanedText = <<>> => kept = {}

\* a text with a page number, an ordinary line between blanks and a letterhead line:
\* only the ordinary line is left, trimmed
C11_Witness ==
    /\ fpc = "output"
    /\ pdfText = <<"P", "a", "g", "e", " ", "3", NL, " ", "a", " ", " ", "b", " ", NL,
                   "x", " ", "G", "o", "v", "e", "r", "n", "m", "e", "n", "t", " ", "\t",
                   "o", "f", " ", "T", "e", "l", "a", "n", "g", "a", "n", "a", " ", "y">>
    /\ cleanedText = <<"a", " ", " ", "b">>

-----------------------------------------------------------------------------
(* Properties of the API next to the ingestion scripts *)

Retrieved(r) == \E i \in DOMAIN trace[r] : trace[r][i] = "retrieve"

\* C12: the passages a knowledge_base request gives to the synthesizer come from
\* the rules corpus collection, the store the rules ingestion script writes
C12_RetrievalReadsRulesStore ==
    \A r \in Reqs :
        Retrieved(r) /\ context[r] # <<>> => vector_store_global = ChromaPath("rules")

\* C13: a step of an /ask request, whatever the other requests and the ingestion run
\* are doing, leaves the log and the store as they are
C13_AskLeavesLogAndStore ==
    [][apiVars' # apiVars => log' = log /\ store' = store]_vars

\* an ingestion run has written the store and not yet the log, a request has been
\* answered from the passages just written and another one is under way
C13_Witness ==
    /\ pc[1] = "log" /\ store # <<>> /\ log = <<>>
    /\ \E r, q \in Reqs :
          /\ rpc[r] = "done" /\ Retrieved(r) /\ context[r] # <<>>
          /\ rpc[q] = "synth"

-----------------------------------------------------------------------------
(* Properties of the stages of one request *)

\* the stages of a request whose classifier reply is t, in the order of the claim
StagesFor(t) ==
    <<"classify", IF HoldsWebSearch(t) THEN "search" ELSE "retrieve",
      "synthesize", "translate">>

\* C14: the stages of a request run in the order classification, the one of retrieval
\* and web search that the routing decision selects, synthesis, translation; the
\* translation is started only once the synthesis has returned the English answer
C14_StagesInOrder ==
    \A r \in Reqs :
        LET full == StagesFor(topic[r])
        IN  /\ IsPrefix(trace[r], full)
            /\ rpc[r] \in {"idle", "router"} => trace[r] = <<>>
            /\ rpc[r] \in {"retrieve", "search"} =>
                  trace[r] = <<"classify">> /\ rpc[r] = full[2]
            /\ rpc[r] = "synth" => trace[r] = SubSeq(full, 1, 2)
            /\ rpc[r] = "translate" =>
                  trace[r] = SubSeq(full, 1, 3) /\ english[r] \in Answers
            /\ Len(trace[r]) = 4 => english[r] \in Answers /\ rpc[r] = "done"

\* one request went through classification, web search, synthesis and translation,
\* another through classification, retrieval, synthesis and translation
C14_Witness ==
    \E r, q \in Reqs :
        /\ trace[r] = <<"classify", "search", "synthesize", "translate">>
        /\ HoldsWebSearch(topic[r])
        /\ trace[q] = <<"classify", "retrieve", "synthesize", "translate">>
        /\ topic[q] = KnowledgeBase

-----------------------------------------------------------------------------
(* Properties of the store writes *)

\* the chunks of the files a finished run iterated over, in that order; a file whose
\* load raised gives none
RECURSIVE ChunksInOrder(_, _)
ChunksInOrder(names, d) ==
    IF names = <<>> THEN <<>>
    ELSE (IF d[Head(names)].raises THEN <<>>
          ELSE ChunksOf(Head(names), d[Head(names)].chunks))
         \o ChunksInOrder(Tail(names), d)

\* C15: the rules run writes its new chunks in consecutive sub-batches of 1 to 100
\* chunks whose concatenation is the whole chunk sequence in order, and a run of
\* either script only appends to the store
C15_SubBatchesCoverChunks ==
    /\ \A k \in DOMAIN hist :
          LET h == hist[k]
          IN  /\ h.storeEnd = h.storeStart \o Concat(h.batches)
              /\ corpus = "rules" =>
                    \A i \in DOMAIN h.batches :
                        Len(h.batches[i]) >= 1 /\ Len(h.batches[i]) <= 100
              /\ corpus = "rules" /\ h.outcome = "done" =>
                    Concat(h.batches) = ChunksInOrder(h.logged, h.dirStart)
    /\ pc[1] # "idle" => store = cur[1].storeStart \o Concat(cur[1].batches)

\* a finished rules run that wrote 202 chunks as sub-batches of 100, 100 and 2
C15_Witness ==
    /\ corpus = "rules"
    /\ \E k \in DOMAIN hist :
          /\ hist[k].outcome = "done"
          /\ Len(hist[k].batches) = 3
          /\ Len(hist[k].batches[1]) = 100 /\ Len(hist[k].batches[3]) = 2
          /\ Len(hist[k].storeEnd) = 202

\* C18: a run appends to the log only after all its store writes have returned; a
\* run in which a write raised, or in which no file gave a chunk, leaves the log as
\* it found it
C18_LogOnlyAfterAllWrites ==
    /\ \A k \in DOMAIN hist :
          LET h == hist[k]
          IN  /\ h.outcome \in {"aborted", "nochunks"} => h.logEnd = h.logStart
              /\ h.logEnd # h.logStart =>
                    /\ h.outcome = "done"
                    /\ h.storeEnd = h.storeStart \o ChunksInOrder(h.logged, h.dirStart)
    /\ pc[1] \in {"loop", "write"} => log = cur[1].logStart

\* a rules run whose second write raised after the first had returned: the store
\* holds the first sub-batch and the log is as before
C18_Witness ==
    /\ corpus = "rules"
    /\ \E k \in DOMAIN hist :
          /\ hist[k].outcome = "aborted" /\ Len(hist[k].batches) = 1
          /\ hist[k].logEnd = hist[k].logStart
          /\ Len(hist[k].storeEnd) = Len(hist[k].storeStart) + 100
    /\ log = <<>>

\* C19: whatever runs were made one after another, aborted ones included, the
\* store holds no chunk of a file twice
C19_ChunksStoredAtMostOnce ==
    \A i, j \in DOMAIN store : store[i] = store[j] => i = j

-----------------------------------------------------------------------------
(* Properties of overlapping runs *)

\* the positions of the store that hold a given chunk
Copies(ch) == {i \in DOMAIN store : store[i] = ch}

\* C16: two runs of one script that overlap can both read the log before either
\* appends to it and select the same new file; once both have finished normally the
\* log holds the record of that file twice and the store each of its chunks twice
C16_OverlapDuplicates ==
    \A k, l \in DOMAIN hist :
        \A f \in FileNames :
            ( /\ k < l
              /\ hist[k].outcome = "done" /\ hist[l].outcome = "done"
              /\ f \in hist[k].new /\ f \in hist[l].new )
            => /\ hist[k].logStart = hist[l].logStart
               /\ Cardinality(Records(f, log)) >= 2
               /\ ~dir[f].raises =>
                     \A i \in 1..dir[f].chunks :
                         Cardinality(Copies([source |-> f, pos |-> i])) >= 2

\* both runs started from the empty log and the empty store and selected a.pdf; its
\* record is in the log twice and its first chunk in the store twice
C16_Witness ==
    /\ Len(hist) = 2
    /\ hist[1].logStart = <<>> /\ hist[2].logStart = <<>>
    /\ hist[1].storeStart = <<>> /\ hist[2].storeStart = <<>>
    /\ FileA \in hist[1].new /\ FileA \in hist[2].new
    /\ Cardinality(Records(FileA, log)) = 2
    /\ Cardinality(Copies([source |-> FileA, pos |-> 1])) = 2

-----------------------------------------------------------------------------
(* Properties of concurrent requests *)

\* C17: while the translation of one request is pending, every other request can
\* take its next step, whichever stage it is at: arrive, be classified, retrieve or
\* search, be synthesized
C17_PendingTranslationBlocksNobody ==
    \A r, q \in Reqs :
        r # q /\ rpc[r] = "translate" =>
            /\ rpc[q] = "idle" => ENABLED Ask(q)
            /\ rpc[q] = "router" => \A t \in AskReplies : ENABLED Classify(q, t)
            /\ rpc[q] = "retrieve" => \A docs \in Retrievals : ENABLED Retrieve(q, docs)
            /\ rpc[q] = "search" => \A results \in SearchResults : ENABLED Search(q, results)
            /\ rpc[q] = "synth" => \A answer \in Answers : ENABLED Synthesize(q, answer)

\* the translation of one request is pending while another request, classified and
\* given its passages, waits for its synthesis
C17_Witness ==
    \E r, q \in Reqs :
        /\ rpc[r] = "translate" /\ rpc[q] = "synth"
        /\ trace[q] = <<"classify", "retrieve">>

=============================================================================
